---- MODULE Spec2Model ----
(***************************************************************************)
(* Model of the assignment engine of src/src/app/page.tsx:                *)
(* parseSessionAndTeams, abbreviateDateRequested, getAvailableSessions and *)
(* assignSessionsToTeams.  JavaScript strings are sequences of one-letter  *)
(* strings; team names are only compared, used as keys and tested for      *)
(* truthiness, so they are atomic strings.                                 *)
(***************************************************************************)
EXTENDS Integers, Sequences, FiniteSets, TLC

VARIABLES fn, arg, ret,
          clients, teamNames, teamSessions, assignments,
          pc, ci, sessions, teams, possibleSessions, usedSessions,
          s, sessionToAssign, sortedTeams, t

vars == <<fn, arg, ret, clients, teamNames, teamSessions, assignments,
          pc, ci, sessions, teams, possibleSessions, usedSessions,
          s, sessionToAssign, sortedTeams, t>>

(* ---------------- bounds ---------------- *)
MaxClients == 4
MaxTeams == 3
MaxJobFrags == 3
MaxDayFrags == 3
MaxReqFrags == 3

(* ---------------- JavaScript values ---------------- *)
\* the value undefined (an absent preferredDay), kept apart from every string
Undefined == <<"undefined">>

UpperChars == <<"A","B","C","D","E","F","G","H","I","J","K","L","M",
                "N","O","P","Q","R","S","T","U","V","W","X","Y","Z">>
LowerChars == <<"a","b","c","d","e","f","g","h","i","j","k","l","m",
                "n","o","p","q","r","s","t","u","v","w","x","y","z">>
DigitChars == {"0","1","2","3","4","5","6","7","8","9"}

Range(q) == {q[i] : i \in 1..Len(q)}

\* \s of a regular expression and the characters String.prototype.trim strips
IsSpace(c) == c \in {" ", "\t"}

\* \w of a regular expression
IsWord(c) == c \in Range(UpperChars) \cup Range(LowerChars) \cup DigitChars \cup {"_"}

LowerChar(c) ==
  IF \E i \in 1..26 : UpperChars[i] = c
    THEN LowerChars[CHOOSE i \in 1..26 : UpperChars[i] = c]
    ELSE c

UpperChar(c) ==
  IF \E i \in 1..26 : LowerChars[i] = c
    THEN UpperChars[CHOOSE i \in 1..26 : LowerChars[i] = c]
    ELSE c

toLowerCase(str) == [i \in 1..Len(str) |-> LowerChar(str[i])]

toUpperCase(str) == [i \in 1..Len(str) |-> UpperChar(str[i])]

includes(str, sub) ==
  \E i \in 0..(Len(str) - Len(sub)) : SubSeq(str, i + 1, i + Len(sub)) = sub

startsWith(str, prefix) ==
  Len(str) >= Len(prefix) /\ SubSeq(str, 1, Len(prefix)) = prefix

trim(str) ==
  IF \A i \in 1..Len(str) : IsSpace(str[i])
    THEN <<>>
    ELSE LET first == CHOOSE i \in 1..Len(str) :
                        ~IsSpace(str[i]) /\ \A j \in 1..(i - 1) : IsSpace(str[j])
             last == CHOOSE i \in 1..Len(str) :
                        ~IsSpace(str[i]) /\ \A j \in (i + 1)..Len(str) : IsSpace(str[j])
         IN SubSeq(str, first, last)

\* str.replace(/pat/g, rep): leftmost, non-overlapping occurrences
RECURSIVE replaceAll(_, _, _)
replaceAll(str, pat, rep) ==
  IF Len(str) < Len(pat) THEN str
  ELSE IF SubSeq(str, 1, Len(pat)) = pat
    THEN rep \o replaceAll(SubSeq(str, Len(pat) + 1, Len(str)), pat, rep)
    ELSE <<Head(str)>> \o replaceAll(Tail(str), pat, rep)

\* !v for a string-or-undefined value: undefined and the empty string are falsy
Falsy(v) == v = Undefined \/ v = <<>>

\* !sortedTeams[t]: an index past the end gives undefined, and the empty
\* name is falsy as well
noTeamAt(q, i) == IF i >= Len(q) THEN TRUE ELSE q[i + 1] = ""

RECURSIVE Flatten(_)
Flatten(frags) == IF frags = <<>> THEN <<>> ELSE Head(frags) \o Flatten(Tail(frags))

(* ---------------- string literals of the source ---------------- *)
sFull == <<"f","u","l","l">>
sHalf == <<"h","a","l","f">>
sTeam == <<"t","e","a","m">>
sAny == <<"a","n","y">>
sAnyDayLower == <<"a","n","y"," ","d","a","y">>
sMorning == <<"m","o","r","n","i","n","g">>
sAfternoon == <<"a","f","t","e","r","n","o","o","n">>
sAm == <<"a","m">>
sPm == <<"p","m">>
sMonday == <<"m","o","n","d","a","y">>
sTuesday == <<"t","u","e","s","d","a","y">>
sWednesday == <<"w","e","d","n","e","s","d","a","y">>
sMon == <<"m","o","n">>
sTue == <<"t","u","e">>
sTues == <<"t","u","e","s">>
sWed == <<"w","e","d">>
AnyDay == <<"A","n","y"," ","D","a","y">>
Mon == <<"M","o","n">>
Tues == <<"T","u","e","s">>
Wed == <<"W","e","d">>
MonAM == <<"M","o","n"," ","A","M">>
MonPM == <<"M","o","n"," ","P","M">>
MonAny == <<"M","o","n"," ","A","n","y">>
TuesAM == <<"T","u","e","s"," ","A","M">>
TuesPM == <<"T","u","e","s"," ","P","M">>
TuesAny == <<"T","u","e","s"," ","A","n","y">>
WedAM == <<"W","e","d"," ","A","M">>
WedPM == <<"W","e","d"," ","P","M">>
WedAny == <<"W","e","d"," ","A","n","y">>

(* ---------------- parseSessionAndTeams ---------------- *)
\* lower.match(/\b<digit>\s*teams?\b/)
matchTeams(lower, digit) ==
  \E i \in 1..Len(lower) :
    /\ lower[i] = digit
    /\ (i = 1 \/ ~IsWord(lower[i - 1]))
    /\ \E j \in (i + 1)..(Len(lower) - 3) :
         /\ \A k \in (i + 1)..(j - 1) : IsSpace(lower[k])
         /\ SubSeq(lower, j, j + 3) = sTeam
         /\ \/ j + 3 = Len(lower)
            \/ j + 3 < Len(lower) /\ ~IsWord(lower[j + 4])
            \/ /\ j + 3 < Len(lower)
               /\ lower[j + 4] = "s"
               /\ (j + 4 = Len(lower) \/ ~IsWord(lower[j + 5]))

\* parseSessionAndTeams with the "full" test after the "half" test
parseSessionAndTeamsFullLast(jobLength) ==
  LET lower == toLowerCase(jobLength)
      sessions1 == IF includes(lower, sHalf) THEN 1 ELSE 1
      sessions2 == IF includes(lower, sFull) THEN 2 ELSE sessions1
      teams2 == IF matchTeams(lower, "2") THEN 2 ELSE 1
      teams3 == IF matchTeams(lower, "3") THEN 3 ELSE teams2
      teams4 == IF matchTeams(lower, "4") THEN 4 ELSE teams3
  IN [sessions |-> sessions2, teams |-> teams4]

parseSessionAndTeams(jobLength) ==
  LET lower == toLowerCase(jobLength)
      sessions1 == IF includes(lower, sFull) THEN 2 ELSE 1
      sessions2 == IF includes(lower, sHalf) THEN 1 ELSE sessions1
      teams2 == IF matchTeams(lower, "2") THEN 2 ELSE 1
      teams3 == IF matchTeams(lower, "3") THEN 3 ELSE teams2
      teams4 == IF matchTeams(lower, "4") THEN 4 ELSE teams3
  IN [sessions |-> sessions2, teams |-> teams4]

(* ---------------- abbreviateDateRequested ---------------- *)
\* dayPeriod with the "am" test before the "pm" test
dayPeriodAmFirst(norm, pmTok, amTok, anyTok) ==
  IF includes(norm, sAm) THEN amTok
  ELSE IF includes(norm, sPm) THEN pmTok
  ELSE anyTok

\* the if-chain of one day: pm first, then am, then the whole day
dayPeriod(norm, pmTok, amTok, anyTok) ==
  IF includes(norm, sPm) THEN pmTok
  ELSE IF includes(norm, sAm) THEN amTok
  ELSE anyTok

abbreviateDateRequested(input) ==
  IF Falsy(input) \/ Falsy(trim(input)) THEN AnyDay
  ELSE
    LET val == toLowerCase(trim(input))
        norm == replaceAll(replaceAll(val, sMorning, sAm), sAfternoon, sPm)
    IN IF val = sAny \/ val = sAnyDayLower THEN AnyDay
       ELSE IF norm = sMonday THEN MonAny
       ELSE IF includes(norm, sMonday) THEN dayPeriod(norm, MonPM, MonAM, MonAny)
       ELSE IF norm = sTuesday THEN TuesAny
       ELSE IF includes(norm, sTuesday) THEN dayPeriod(norm, TuesPM, TuesAM, TuesAny)
       ELSE IF norm = sWednesday THEN WedAny
       ELSE IF includes(norm, sWednesday) THEN dayPeriod(norm, WedPM, WedAM, WedAny)
       ELSE IF norm = sMon THEN MonAny
       ELSE IF norm = sTue \/ norm = sTues THEN TuesAny
       ELSE IF norm = sWed THEN WedAny
       ELSE IF includes(norm, sMon) THEN dayPeriod(norm, MonPM, MonAM, MonAny)
       ELSE IF includes(norm, sTue) \/ includes(norm, sTues)
         THEN dayPeriod(norm, TuesPM, TuesAM, TuesAny)
       ELSE IF includes(norm, sWed) THEN dayPeriod(norm, WedPM, WedAM, WedAny)
       ELSE IF includes(norm, sAm) THEN toUpperCase(norm)
       ELSE IF includes(norm, sPm) THEN toUpperCase(norm)
       ELSE input

(* ---------------- getAvailableSessions ---------------- *)
ALL_SESSIONS == <<MonAM, MonPM, TuesAM, TuesPM, WedAM, WedPM>>

\* getAvailableSessions without the test for a single session
getAvailableSessionsNoSingle(requested) ==
  IF Falsy(requested) \/ requested = AnyDay THEN ALL_SESSIONS
  ELSE IF startsWith(requested, Mon) THEN <<MonAM, MonPM>>
  ELSE IF startsWith(requested, Tues) THEN <<TuesAM, TuesPM>>
  ELSE IF startsWith(requested, Wed) THEN <<WedAM, WedPM>>
  ELSE ALL_SESSIONS

getAvailableSessions(requested) ==
  IF Falsy(requested) \/ requested = AnyDay THEN ALL_SESSIONS
  ELSE IF requested \in Range(ALL_SESSIONS) THEN <<requested>>
  ELSE IF startsWith(requested, Mon) THEN <<MonAM, MonPM>>
  ELSE IF startsWith(requested, Tues) THEN <<TuesAM, TuesPM>>
  ELSE IF startsWith(requested, Wed) THEN <<WedAM, WedPM>>
  ELSE ALL_SESSIONS

(* ---------------- inputs of a run ---------------- *)
\* the client records the runs are drawn from
FullTwoTeamsMonday ==
  [jobLength |-> <<"F","u","l","l"," ","2"," ","T","e","a","m","s">>,
   preferredDay |-> <<"M","o","n","d","a","y">>]

HalfAnyDay == [jobLength |-> <<"H","a","l","f">>, preferredDay |-> <<>>]

FullTuesday ==
  [jobLength |-> <<"F","u","l","l">>, preferredDay |-> <<"T","u","e","s","d","a","y">>]

FullFourTeamsWed ==
  [jobLength |-> <<"f","u","l","l"," ","4"," ","t","e","a","m","s">>,
   preferredDay |-> <<"W","e","d">>]

FullTuesAm ==
  [jobLength |-> <<"F","u","l","l">>, preferredDay |-> <<"t","u","e","s"," ","a","m">>]

ClientKinds == {FullTwoTeamsMonday, HalfAnyDay, FullTuesday, FullFourTeamsWed, FullTuesAm}

TeamPool == {"A", "B", ""}

SeqsUpTo(S, n) == UNION {[1..k -> S] : k \in 0..n}

Rosters ==
  {r \in SeqsUpTo(TeamPool, MaxTeams) :
     Len(r) >= 1 /\ \A i, j \in 1..Len(r) : i # j => r[i] # r[j]}

ClientSeqs == {c \in SeqsUpTo(ClientKinds, MaxClients) : Len(c) >= 1}

\* the runs in which every client meets a shortfall of sessions or of teams
ShortfallSeqs ==
  {c \in SeqsUpTo({FullTuesAm, FullFourTeamsWed}, MaxClients) : Len(c) >= 1}

(* ---------------- assignSessionsToTeams ---------------- *)
\* teamSessions = {}; teamNames.forEach((team) => (teamSessions[team] = []))
initTeamSessions(names) == [team \in Range(names) |-> <<>>]

\* possibleSessions.filter((sess) => !usedSessions.includes(sess))
availableUnfiltered(possible, used) == possible

available(possible, used) ==
  SelectSeq(possible, LAMBDA sess : sess \notin Range(used))

\* the filter predicate of sortedTeams
eligibleUnbooked(ts, team, sess) == Len(ts[team]) < 6

eligibleAny(ts, team, sess) == TRUE

eligible(ts, team, sess) ==
  sess \notin Range(ts[team]) /\ Len(ts[team]) < 6

\* the sort comparator: negative when a goes first
compareLoadDescending(ts, a, b) == Len(ts[b]) - Len(ts[a])

compareLoad(ts, a, b) == Len(ts[a]) - Len(ts[b])

\* Array.prototype.sort is stable: x goes behind every element that does
\* not compare greater than it
insertSorted(ts, x, q) ==
  LET k == Cardinality({i \in 1..Len(q) : compareLoad(ts, q[i], x) <= 0})
  IN SubSeq(q, 1, k) \o <<x>> \o SubSeq(q, k + 1, Len(q))

RECURSIVE stableSort(_, _)
stableSort(ts, q) ==
  IF q = <<>> THEN q
  ELSE insertSorted(ts, q[Len(q)], stableSort(ts, SubSeq(q, 1, Len(q) - 1)))

computeSortedTeams(names, ts, sess) ==
  stableSort(ts, SelectSeq(names, LAMBDA team : eligible(ts, team, sess)))

\* teamSessions[team].push(sessionToAssign)
pushSessionFront(ts, team, sess) == [ts EXCEPT ![team] = <<sess>> \o @]

pushSession(ts, team, sess) == [ts EXCEPT ![team] = Append(@, sess)]

\* clients.forEach moves on to the next client
nextClient(i) == i + 1

\* line 266: handleSubmit calls assignSessionsToTeams(csvData, teamNames)
Invoke ==
  /\ fn = "assign" /\ pc = "idle"
  /\ \E cs \in ClientSeqs, names \in Rosters :
       /\ clients' = cs
       /\ teamNames' = names
  /\ pc' = "entry"
  /\ UNCHANGED <<fn, arg, ret, teamSessions, assignments, ci, sessions, teams,
                 possibleSessions, usedSessions, s, sessionToAssign, sortedTeams, t>>

\* the same call, with clients that all meet a shortfall
InvokeShortfall ==
  /\ fn = "assign" /\ pc = "idle"
  /\ \E cs \in ShortfallSeqs, names \in Rosters :
       /\ clients' = cs
       /\ teamNames' = names
  /\ pc' = "entry"
  /\ UNCHANGED <<fn, arg, ret, teamSessions, assignments, ci, sessions, teams,
                 possibleSessions, usedSessions, s, sessionToAssign, sortedTeams, t>>

\* lines 152-155: the run-local state is built
Begin ==
  /\ fn = "assign" /\ pc = "entry"
  /\ teamSessions' = initTeamSessions(teamNames)
  /\ assignments' = <<>>
  /\ ci' = 1
  /\ pc' = "client"
  /\ UNCHANGED <<fn, arg, ret, clients, teamNames, sessions, teams,
                 possibleSessions, usedSessions, s, sessionToAssign, sortedTeams, t>>

\* line 159: parseSessionAndTeams(client.jobLength || ''), for each kind of client
requirementByKind ==
  [kind \in ClientKinds |->
     parseSessionAndTeams(IF Falsy(kind.jobLength) THEN <<>> ELSE kind.jobLength)]

\* lines 160-161: the candidate sessions of each kind of client, resolved
\* from its normalized preference
candidatesByKind ==
  [kind \in ClientKinds |->
     getAvailableSessions(abbreviateDateRequested(kind.preferredDay))]

\* lines 159-163: the requirement and the candidate sessions of one client
ClientStep ==
  /\ fn = "assign" /\ pc = "client" /\ ci <= Len(clients)
  /\ sessions' = requirementByKind[clients[ci]].sessions
  /\ teams' = requirementByKind[clients[ci]].teams
  /\ possibleSessions' = candidatesByKind[clients[ci]]
  /\ usedSessions' = <<>>
  /\ s' = 0
  /\ pc' = "session"
  /\ UNCHANGED <<fn, arg, ret, clients, teamNames, teamSessions, assignments,
                 ci, sessionToAssign, sortedTeams, t>>

\* line 187: forEach is over, the result is returned
Return ==
  /\ fn = "assign" /\ pc = "client" /\ ci > Len(clients)
  /\ ret' = [assignments |-> assignments, teamSessions |-> teamSessions]
  /\ pc' = "done"
  /\ UNCHANGED <<fn, arg, clients, teamNames, teamSessions, assignments, ci,
                 sessions, teams, possibleSessions, usedSessions, s,
                 sessionToAssign, sortedTeams, t>>

\* lines 166-178: a session is chosen and the eligible teams are sorted
SessionSelect ==
  /\ fn = "assign" /\ pc = "session" /\ s < sessions
  /\ LET avail == available(possibleSessions, usedSessions)
     IN /\ avail # <<>>
        /\ sessionToAssign' = avail[1]
        /\ usedSessions' = Append(usedSessions, avail[1])
        /\ sortedTeams' = computeSortedTeams(teamNames, teamSessions, avail[1])
  /\ t' = 0
  /\ pc' = "team"
  /\ UNCHANGED <<fn, arg, ret, clients, teamNames, teamSessions, assignments,
                 ci, sessions, teams, possibleSessions, s>>

\* line 170: no candidate is left, the client's session loop is left
SessionBreak ==
  /\ fn = "assign" /\ pc = "session" /\ s < sessions
  /\ available(possibleSessions, usedSessions) = <<>>
  /\ ci' = nextClient(ci)
  /\ pc' = "client"
  /\ UNCHANGED <<fn, arg, ret, clients, teamNames, teamSessions, assignments,
                 sessions, teams, possibleSessions, usedSessions, s,
                 sessionToAssign, sortedTeams, t>>

\* line 166: s < sessionsNeeded is false, the callback returns
SessionLoopExit ==
  /\ fn = "assign" /\ pc = "session" /\ ~(s < sessions)
  /\ ci' = nextClient(ci)
  /\ pc' = "client"
  /\ UNCHANGED <<fn, arg, ret, clients, teamNames, teamSessions, assignments,
                 sessions, teams, possibleSessions, usedSessions, s,
                 sessionToAssign, sortedTeams, t>>

\* lines 180-183: the next sorted team gets the session
TeamAssign ==
  /\ fn = "assign" /\ pc = "team" /\ t < teams
  /\ ~noTeamAt(sortedTeams, t)
  /\ LET team == sortedTeams[t + 1]
     IN /\ teamSessions' = pushSession(teamSessions, team, sessionToAssign)
        /\ assignments' = Append(assignments,
             [team |-> team, client |-> ci, session |-> sessionToAssign])
  /\ t' = t + 1
  /\ UNCHANGED <<fn, arg, ret, clients, teamNames, pc, ci, sessions, teams,
                 possibleSessions, usedSessions, s, sessionToAssign, sortedTeams>>

\* line 181: sortedTeams[t] is undefined or an empty name, the team loop is left
TeamBreak ==
  /\ fn = "assign" /\ pc = "team" /\ t < teams
  /\ noTeamAt(sortedTeams, t)
  /\ pc' = "sessionInc"
  /\ UNCHANGED <<fn, arg, ret, clients, teamNames, teamSessions, assignments,
                 ci, sessions, teams, possibleSessions, usedSessions, s,
                 sessionToAssign, sortedTeams, t>>

\* line 179: t < teamsNeeded is false
TeamLoopExit ==
  /\ fn = "assign" /\ pc = "team" /\ ~(t < teams)
  /\ pc' = "sessionInc"
  /\ UNCHANGED <<fn, arg, ret, clients, teamNames, teamSessions, assignments,
                 ci, sessions, teams, possibleSessions, usedSessions, s,
                 sessionToAssign, sortedTeams, t>>

\* line 166: s++
SessionInc ==
  /\ fn = "assign" /\ pc = "sessionInc"
  /\ s' = s + 1
  /\ pc' = "session"
  /\ UNCHANGED <<fn, arg, ret, clients, teamNames, teamSessions, assignments,
                 ci, sessions, teams, possibleSessions, usedSessions,
                 sessionToAssign, sortedTeams, t>>

idleRun ==
  /\ clients = <<>> /\ teamNames = <<>> /\ teamSessions = <<>> /\ assignments = <<>>
  /\ ci = 0 /\ sessions = 0 /\ teams = 0 /\ possibleSessions = <<>>
  /\ usedSessions = <<>> /\ s = 0 /\ sessionToAssign = <<>> /\ sortedTeams = <<>> /\ t = 0

Init ==
  /\ fn = "assign" /\ pc = "idle" /\ arg = <<>> /\ ret = Undefined
  /\ idleRun

Next ==
  \/ Invoke
  \/ Begin
  \/ ClientStep
  \/ Return
  \/ SessionSelect
  \/ SessionBreak
  \/ SessionLoopExit
  \/ TeamAssign
  \/ TeamBreak
  \/ TeamLoopExit
  \/ SessionInc

Spec == Init /\ [][Next]_vars

\* the steps of a run that has been started
RunStep ==
  \/ Begin
  \/ ClientStep
  \/ Return
  \/ SessionSelect
  \/ SessionBreak
  \/ SessionLoopExit
  \/ TeamAssign
  \/ TeamBreak
  \/ TeamLoopExit
  \/ SessionInc

\* a run is one synchronous, non-suspending computation: once called it takes
\* every step it can; whether it is called at all is up to the caller
NextShortfall == InvokeShortfall \/ RunStep

FairSpec == Init /\ [][NextShortfall]_vars /\ WF_vars(RunStep)

(* ---------------- calls of the pure helpers ---------------- *)
JobFrags ==
  { <<"F","u","l","l">>, <<"h","a","l","f">>, <<" ">>, <<"2"," ","t","e","a","m">>,
    <<"3"," ","T","e","a","m","s">>, <<"4","t","e","a","m">>, <<"s">>, <<"x">>, <<"2">> }

DayFrags ==
  { <<"M","o","n","d","a","y">>, sTuesday, sWednesday, <<"M","o","n">>, sTue, <<"s">>,
    sWed, sMorning, sAfternoon, <<"A","M">>, sPm, <<" ">>, sAny, <<"d","a","y">>,
    <<"x">> }

ReqFrags ==
  { Mon, Tues, Wed, <<" ","A","M">>, <<" ","P","M">>, <<" ","A","n","y">>, AnyDay,
    <<"d","a","y">>, <<"x">>, <<" ">>, sMon }

Strings(frags, n) == {Flatten(f) : f \in SeqsUpTo(frags, n)}

InitParse ==
  /\ fn = "parse" /\ pc = "call" /\ ret = Undefined
  /\ arg \in Strings(JobFrags, MaxJobFrags)
  /\ idleRun

CallParse ==
  /\ fn = "parse" /\ pc = "call"
  /\ ret' = parseSessionAndTeams(arg)
  /\ pc' = "returned"
  /\ UNCHANGED <<fn, arg>>
  /\ UNCHANGED <<clients, teamNames, teamSessions, assignments, ci, sessions, teams,
                 possibleSessions, usedSessions, s, sessionToAssign, sortedTeams, t>>

NextParse == CallParse

SpecParse == InitParse /\ [][NextParse]_vars

InitAbbreviate ==
  /\ fn = "abbreviate" /\ pc = "call" /\ ret = Undefined
  /\ arg \in Strings(DayFrags, MaxDayFrags) \cup {Undefined}
  /\ idleRun

CallAbbreviate ==
  /\ fn = "abbreviate" /\ pc = "call"
  /\ ret' = abbreviateDateRequested(arg)
  /\ pc' = "returned"
  /\ UNCHANGED <<fn, arg>>
  /\ UNCHANGED <<clients, teamNames, teamSessions, assignments, ci, sessions, teams,
                 possibleSessions, usedSessions, s, sessionToAssign, sortedTeams, t>>

NextAbbreviate == CallAbbreviate

SpecAbbreviate == InitAbbreviate /\ [][NextAbbreviate]_vars

InitAvailable ==
  /\ fn = "available" /\ pc = "call" /\ ret = Undefined
  /\ arg \in Strings(ReqFrags, MaxReqFrags) \cup {Undefined}
  /\ idleRun

CallAvailable ==
  /\ fn = "available" /\ pc = "call"
  /\ ret' = getAvailableSessions(arg)
  /\ pc' = "returned"
  /\ UNCHANGED <<fn, arg>>
  /\ UNCHANGED <<clients, teamNames, teamSessions, assignments, ci, sessions, teams,
                 possibleSessions, usedSessions, s, sessionToAssign, sortedTeams, t>>

NextAvailable == CallAvailable

SpecAvailable == InitAvailable /\ [][NextAvailable]_vars

(* ======================= properties ======================= *)
Min(a, b) == IF a < b THEN a ELSE b

IsPrefix(p, q) == Len(p) <= Len(q) /\ SubSeq(q, 1, Len(p)) = p

NoDuplicates(q) == \A i, j \in 1..Len(q) : i # j => q[i] # q[j]

started == pc \notin {"idle", "entry"}

\* position of a session in the catalog
catalogIndex(sess) == CHOOSE i \in 1..Len(ALL_SESSIONS) : ALL_SESSIONS[i] = sess

\* position of a team in the roster
rosterIndex(team) == CHOOSE i \in 1..Len(teamNames) : teamNames[i] = team

uniquePairs(as) ==
  \A i, j \in 1..Len(as) :
    i # j => ~(as[i].team = as[j].team /\ as[i].session = as[j].session)

\* C1: no two Assignments have the same (team, session) pair, in every state
\* of a run and in the returned result.
C1_UniquePairs ==
  /\ uniquePairs(assignments)
  /\ pc = "done" => uniquePairs(ret.assignments)

\* a finished run in which a session is shared by two teams and a team that
\* already held the chosen session was passed over
C1_Witness ==
  /\ pc = "done"
  /\ \E i, j \in 1..Len(assignments) :
       /\ assignments[i].session = assignments[j].session
       /\ assignments[i].team # assignments[j].team
       /\ assignments[i].client # assignments[j].client

\* the teams that got the session in the step that has just ended
receivedInStep == [i \in 1..t |-> assignments[Len(assignments) - t + i].team]

\* the held sessions as they were when the step began
heldAtStepStart ==
  [team \in DOMAIN teamSessions |->
     IF team \in Range(receivedInStep)
       THEN SubSeq(teamSessions[team], 1, Len(teamSessions[team]) - 1)
       ELSE teamSessions[team]]

claimEligible(held, sess) ==
  {team \in Range(teamNames) : sess \notin Range(held[team]) /\ Len(held[team]) < 6}

\* E of the claim: ascending load, ties in roster order
claimOrder(held, sess) ==
  LET E == claimEligible(held, sess)
      before(a, b) == \/ Len(held[a]) < Len(held[b])
                      \/ Len(held[a]) = Len(held[b]) /\ rosterIndex(a) < rosterIndex(b)
  IN CHOOSE q \in [1..Cardinality(E) -> E] :
       \A i, j \in 1..Cardinality(E) : i < j => before(q[i], q[j])

\* C2: the teams that receive an Assignment in a step are exactly the first
\* min(teamsNeeded, |E|) teams of E, in that order.
C2_FirstEligibleTeams ==
  pc = "sessionInc" =>
    LET E == claimOrder(heldAtStepStart, sessionToAssign)
    IN receivedInStep = SubSeq(E, 1, Min(teams, Len(E)))

candidatesOf(client) == candidatesByKind[client]

\* C4: the k-th iteration of a client's session loop processes the k-th
\* candidate; every Assignment's session is a candidate of its client and no
\* session is processed twice for one client.
C4_KthCandidate ==
  /\ pc = "session" =>
       /\ s <= Len(candidatesOf(clients[ci]))
       /\ usedSessions = SubSeq(candidatesOf(clients[ci]), 1, s)
  /\ pc \in {"team", "sessionInc"} =>
       /\ s + 1 <= Len(candidatesOf(clients[ci]))
       /\ sessionToAssign = candidatesOf(clients[ci])[s + 1]
       /\ usedSessions = SubSeq(candidatesOf(clients[ci]), 1, s + 1)
  /\ NoDuplicates(usedSessions)
  /\ \A i \in 1..Len(assignments) :
       assignments[i].session \in Range(candidatesOf(clients[assignments[i].client]))

\* the second iteration of a client took the second candidate although no
\* team was eligible for it
C4_Witness ==
  /\ pc = "sessionInc" /\ s = 1 /\ t = 0
  /\ sessionToAssign = candidatesOf(clients[ci])[2]

\* start of the group (same client, same session) an Assignment belongs to
groupStart(i) ==
  CHOOSE g \in 1..i :
    /\ assignments[g].client = assignments[i].client
    /\ assignments[g].session = assignments[i].session
    /\ \A k \in 1..(g - 1) :
         ~(assignments[k].client = assignments[i].client
           /\ assignments[k].session = assignments[i].session)

loadBefore(team, g) ==
  Cardinality({k \in 1..(g - 1) : assignments[k].team = team})

outputOrdered ==
  \A i, j \in 1..Len(assignments) :
    i < j =>
      LET a == assignments[i]
          b == assignments[j]
          g == groupStart(i)
      IN \/ a.client < b.client
         \/ /\ a.client = b.client
            /\ catalogIndex(a.session) < catalogIndex(b.session)
         \/ /\ a.client = b.client
            /\ a.session = b.session
            /\ \/ loadBefore(a.team, g) < loadBefore(b.team, g)
               \/ /\ loadBefore(a.team, g) = loadBefore(b.team, g)
                  /\ rosterIndex(a.team) < rosterIndex(b.team)

exampleRun ==
  (pc = "done" /\ teamNames = <<"A", "B">> /\ clients = <<FullTwoTeamsMonday>>) =>
    /\ ret.assignments =
         << [team |-> "A", client |-> 1, session |-> MonAM],
            [team |-> "B", client |-> 1, session |-> MonAM],
            [team |-> "A", client |-> 1, session |-> MonPM],
            [team |-> "B", client |-> 1, session |-> MonPM] >>
    /\ Len(ret.teamSessions["A"]) = 2
    /\ Len(ret.teamSessions["B"]) = 2

\* C8: the Assignment list only grows, is ordered by client, then catalog
\* order of the session, then sorted eligible-team order, and the run of
\* roster [A,B] with one "Full 2 Teams"/"Monday" client returns the four
\* Assignments of the spec in order, both teams with load 2.
C8_OrderedOutput ==
  /\ [](outputOrdered /\ exampleRun)
  /\ [][IsPrefix(assignments, assignments')]_vars

\* a finished run in which a less loaded team went before a more loaded team
\* that stands earlier in the roster
C8_Witness ==
  /\ pc = "done"
  /\ \E i \in 1..(Len(assignments) - 1) :
       /\ assignments[i].client = assignments[i + 1].client
       /\ assignments[i].session = assignments[i + 1].session
       /\ rosterIndex(assignments[i].team) > rosterIndex(assignments[i + 1].team)

\* every run that is called returns, and the clients are taken one by one up
\* to the last: the client index only moves on by one, out of the session
\* loop of the client before, whatever shortfall that client met
runCompletes ==
  /\ (pc = "entry") ~>
       (pc = "done" /\ ci = Len(clients) + 1 /\ ret.assignments = assignments)
  /\ [][ci' # ci => ci' = ci + 1 /\ pc \in {"entry", "session"}]_vars

\* a step that cannot get teamsNeeded eligible teams gives the session to
\* every eligible team
emitsWhatItCan ==
  pc = "sessionInc" =>
    LET E == claimEligible(heldAtStepStart, sessionToAssign)
    IN Cardinality(E) <= teams => Range(receivedInStep) = E

\* C9: every run terminates with a result and without an error; a shortfall
\* of sessions or of eligible teams leaves the partial Assignments that can
\* be made, and every later client is still processed.
C9_PartialOutputAllClients == runCompletes /\ []emitsWhatItCan

sessionsAssignedTo(team) ==
  LET mine == SelectSeq(assignments, LAMBDA a : a.team = team)
  IN [i \in 1..Len(mine) |-> mine[i].session]

\* C10: the held-session mapping has exactly the roster teams as keys, and
\* each team's list is duplicate-free and equals, in order, the sessions of
\* the Assignments emitted so far for that team.
C10_MappingAgrees ==
  started =>
    /\ DOMAIN teamSessions = Range(teamNames)
    /\ \A team \in Range(teamNames) :
         /\ NoDuplicates(teamSessions[team])
         /\ teamSessions[team] = sessionsAssignedTo(team)

\* a team holds two sessions in the middle of a run
C10_Witness ==
  /\ pc = "team"
  /\ \E team \in Range(teamNames) : Len(teamSessions[team]) >= 2

returnedFrom(f) == fn = f /\ pc = "returned"

\* the canonical day tokens and their sessions
claimDays == <<Mon, Tues, Wed>>

daySessions(day) == <<day \o <<" ","A","M">>, day \o <<" ","P","M">>>>

isBlank(v) == v = Undefined \/ \A i \in 1..Len(v) : IsSpace(v[i])

\* the Resolver of the spec: only the ten canonical tokens are recognized
claimResolver(requested) ==
  IF isBlank(requested) \/ requested = AnyDay THEN ALL_SESSIONS
  ELSE IF \E i \in 1..6 : ALL_SESSIONS[i] = requested THEN <<requested>>
  ELSE IF \E i \in 1..3 : requested = claimDays[i] \o <<" ","A","n","y">>
    THEN daySessions(claimDays[CHOOSE i \in 1..3 :
                                 requested = claimDays[i] \o <<" ","A","n","y">>])
  ELSE ALL_SESSIONS

\* the Resolver with every string that begins with a day token taken as
\* that day
prefixResolver(requested) ==
  IF isBlank(requested) \/ requested = AnyDay THEN ALL_SESSIONS
  ELSE IF \E i \in 1..6 : ALL_SESSIONS[i] = requested THEN <<requested>>
  ELSE IF \E i \in 1..3 : startsWith(requested, claimDays[i])
    THEN daySessions(claimDays[CHOOSE i \in 1..3 : startsWith(requested, claimDays[i])])
  ELSE ALL_SESSIONS

\* C5 as stated: getAvailableSessions gives the full catalog for every string
\* that is not one of the ten canonical tokens.
C5_ResolverAsStated ==
  returnedFrom("available") => ret = claimResolver(arg)

\* C5 amended: a string that is not a session token and begins with "Mon",
\* "Tues" or "Wed" gives the two sessions of that day; blank, absent,
\* "Any Day" and every remaining string give the full catalog; a session
\* token gives the singleton list.
C5_ResolverByPrefix ==
  returnedFrom("available") => ret = prefixResolver(arg)

\* a string that begins with "Mon" and is no canonical token was resolved to
\* the Monday sessions
C5_Witness ==
  /\ returnedFrom("available")
  /\ arg # Undefined
  /\ startsWith(arg, Mon) /\ arg # MonAny /\ arg # MonAM /\ arg # MonPM
  /\ ret = <<MonAM, MonPM>>

sTeams == <<"t","e","a","m","s">>

\* digit, optional white space, "team" or "teams", between word boundaries
claimPhrase(lower, digit) ==
  \E a \in 1..Len(lower), k \in 0..Len(lower), word \in {sTeam, sTeams} :
    LET b == a + k + Len(word)
    IN /\ b <= Len(lower)
       /\ lower[a] = digit
       /\ (a > 1 => ~IsWord(lower[a - 1]))
       /\ \A i \in (a + 1)..(a + k) : IsSpace(lower[i])
       /\ SubSeq(lower, a + k + 1, b) = word
       /\ (b < Len(lower) => ~IsWord(lower[b + 1]))

digitOf(n) == CASE n = 2 -> "2" [] n = 3 -> "3" [] n = 4 -> "4"

claimSessions(lower) ==
  IF includes(lower, sFull) /\ ~includes(lower, sHalf) THEN 2 ELSE 1

Max(S) == CHOOSE x \in S : \A y \in S : y <= x

\* C6 as stated: sessionsNeeded is 2 exactly for "full" without "half";
\* teamsNeeded is n whenever the text has a phrase "n team(s)", n in 2..4,
\* and 1 when it has none.
C6_ParseAsStated ==
  returnedFrom("parse") =>
    LET lower == toLowerCase(arg)
    IN /\ ret.sessions = claimSessions(lower)
       /\ \A n \in {2, 3, 4} : claimPhrase(lower, digitOf(n)) => ret.teams = n
       /\ (\A n \in {2, 3, 4} : ~claimPhrase(lower, digitOf(n))) => ret.teams = 1

\* C6 amended: teamsNeeded is the largest n in 2..4 whose phrase (the digit,
\* any white space or none, "team" or "teams", between word boundaries)
\* occurs in the text, and 1 when none occurs; sessionsNeeded as stated.
C6_ParseLargestPhrase ==
  returnedFrom("parse") =>
    LET lower == toLowerCase(arg)
    IN /\ ret.sessions = claimSessions(lower)
       /\ ret.teams = Max({1} \cup {n \in {2, 3, 4} : claimPhrase(lower, digitOf(n))})

\* a text with the phrases of 2 and of 3 teams was parsed
C6_Witness ==
  /\ returnedFrom("parse")
  /\ claimPhrase(toLowerCase(arg), "2") /\ claimPhrase(toLowerCase(arg), "3")
  /\ ret.teams = 3

\* the day names in the order the chain tries them, with their tokens
claimDayNames ==
  << [name |-> sMonday, day |-> Mon], [name |-> sTuesday, day |-> Tues],
     [name |-> sWednesday, day |-> Wed], [name |-> sMon, day |-> Mon],
     [name |-> sTue, day |-> Tues], [name |-> sTues, day |-> Tues],
     [name |-> sWed, day |-> Wed] >>

claimNormalize(input) ==
  IF isBlank(input) THEN AnyDay
  ELSE
    LET val == toLowerCase(trim(input))
        norm == replaceAll(replaceAll(val, sMorning, sAm), sAfternoon, sPm)
        found == {i \in 1..Len(claimDayNames) : includes(norm, claimDayNames[i].name)}
        first == CHOOSE i \in found : \A j \in found : i <= j
        period == IF includes(norm, sPm) THEN <<" ","P","M">>
                  ELSE IF includes(norm, sAm) THEN <<" ","A","M">>
                  ELSE <<" ","A","n","y">>
    IN IF val \in {sAny, sAnyDayLower} THEN AnyDay
       ELSE IF found # {} THEN claimDayNames[first].day \o period
       ELSE IF includes(norm, sAm) \/ includes(norm, sPm) THEN toUpperCase(norm)
       ELSE input

\* C7: abbreviateDateRequested follows the rule chain: blank, absent, "any"
\* and "any day" give "Any Day"; the first day name found in the
\* lower-cased, trimmed, substituted text gives "<Day> PM", "<Day> AM" or
\* "<Day> Any"; without a day, "am" or "pm" gives that text uppercased; any
\* other input is returned unchanged.
C7_RuleChain ==
  returnedFrom("abbreviate") => ret = claimNormalize(arg)

\* "afternoon" was substituted and an abbreviated day was found although a
\* later day is in the text as well
C7_Witness ==
  /\ returnedFrom("abbreviate")
  /\ arg # Undefined
  /\ includes(toLowerCase(arg), sAfternoon)
  /\ includes(toLowerCase(arg), sWed)
  /\ ret = MonPM
====
